---- MODULE Spec2Model ----
(***************************************************************************)
(* Catalog query engine of product-catalog-cms: filterProducts,            *)
(* searchProducts, sortProducts, getAvailableFilterOptions,                *)
(* paginateResults, the two getProducts services, GET /api/products,       *)
(* GET /api/products/[id] and the shopping cart (CartProvider).            *)
(*                                                                         *)
(* Representation                                                          *)
(*  - a JavaScript string is a sequence of one-character strings;          *)
(*  - an optional value is Undefined (<<>>) or Some(v) (<<v>>);            *)
(*  - the page and limit arguments are JavaScript numbers that may carry a *)
(*    fraction: they are held in half units (3 stands for 1.5), so that    *)
(*    Math.floor is a real conversion; every other number is an integer;   *)
(*  - Math.min() / Math.max() of no arguments are +Infinity / -Infinity:   *)
(*    a price-range bound is Fin(n), PosInfinity or NegInfinity.           *)
(***************************************************************************)
EXTENDS Integers, Sequences, FiniteSets, TLC

\* products: the catalog / the product list handed to the engine
\* items:    the item list handed to the pagination service
\* op, args, result: the last call, its arguments and what it returned
\* cart:     the CartProvider: its items state, the state updates queued
\*           for the next render, localStorage and the total it renders
VARIABLES products, items, op, args, result, cart

vars == <<products, items, op, args, result, cart>>

----------------------------------------------------------------------------
(* Bounds of the model *)

MaxProducts == 3

MaxItems == 6

\* the largest quantity a cart operation is asked to reach
MaxQuantity == 3

\* the most state updates queued between two renders
MaxPending == 2

----------------------------------------------------------------------------
(* Optional values and numbers *)

Undefined == <<>>

Some(v) == <<v>>

Has(x) == x # Undefined

Val(x) == x[1]

Fin(n) == <<0, n>>

PosInfinity == <<1, 0>>

NegInfinity == <<-1, 0>>

SetMin(S) == CHOOSE x \in S : \A y \in S : x <= y

SetMax(S) == CHOOSE x \in S : \A y \in S : x >= y

Max2(a, b) == IF a >= b THEN a ELSE b

Min2(a, b) == IF a <= b THEN a ELSE b

\* Math.round of a number held in half units
RoundHalfUp(h) == (h + 1) \div 2

\* Math.floor of a number held in half units
Floor(h) == h \div 2

\* Math.floor(a / b) for integers a >= 0, b >= 1
FloorDiv(a, b) == a \div b

\* Math.ceil(a / b) for integers a >= 0, b >= 1
CeilDiv(a, b) == (a + b - 1) \div b

\* Array.prototype.slice(start, end) for 0 <= start (0-based, end exclusive)
Slice(s, start, end) ==
  IF start >= Min2(end, Len(s)) THEN <<>> ELSE SubSeq(s, start + 1, Min2(end, Len(s)))

Range(s) == {s[i] : i \in 1..Len(s)}

\* Array.prototype.filter, keeping the elements whose index is in Keep
RECURSIVE SelectIdx(_, _, _)
SelectIdx(s, Keep, i) ==
  IF i > Len(s) THEN <<>>
  ELSE (IF i \in Keep THEN <<s[i]>> ELSE <<>>) \o SelectIdx(s, Keep, i + 1)

----------------------------------------------------------------------------
(* Strings *)

UpperChars == <<"A", "B", "C", "D", "E", "F", "G", "H", "I", "J", "K", "L", "M",
                "N", "O", "P", "Q", "R", "S", "T", "U", "V", "W", "X", "Y", "Z">>

LowerChars == <<"a", "b", "c", "d", "e", "f", "g", "h", "i", "j", "k", "l", "m",
                "n", "o", "p", "q", "r", "s", "t", "u", "v", "w", "x", "y", "z">>

ToLowerChar(c) ==
  IF \E i \in 1..Len(UpperChars) : UpperChars[i] = c
  THEN LowerChars[CHOOSE i \in 1..Len(UpperChars) : UpperChars[i] = c]
  ELSE c

\* String.prototype.toLowerCase
ToLowerCase(s) == [i \in 1..Len(s) |-> ToLowerChar(s[i])]

RECURSIVE TrimStart(_)
TrimStart(s) ==
  IF s # <<>> /\ Head(s) = " " THEN TrimStart(Tail(s)) ELSE s

RECURSIVE TrimEnd(_)
TrimEnd(s) ==
  IF s # <<>> /\ s[Len(s)] = " " THEN TrimEnd(SubSeq(s, 1, Len(s) - 1)) ELSE s

\* String.prototype.trim
Trim(s) == TrimEnd(TrimStart(s))

\* String.prototype.includes
Includes(s, t) ==
  \E i \in 0..(Len(s) - Len(t)) : SubSeq(s, i + 1, i + Len(t)) = t

\* String.prototype.startsWith
StartsWith(s, t) == Len(t) <= Len(s) /\ SubSeq(s, 1, Len(t)) = t

\* Array.prototype.join(' ')
RECURSIVE Join(_)
Join(ss) ==
  IF ss = <<>> THEN <<>>
  ELSE IF Len(ss) = 1 THEN ss[1]
  ELSE ss[1] \o <<" ">> \o Join(Tail(ss))

----------------------------------------------------------------------------
(* The catalog: Product records (src/lib/types/product.ts) *)

sCable == <<"C", "a", "b", "l", "e">>
sUsbCable == <<"U", "s", "b", " ", "c", "a", "b", "l", "e">>
sAudio == <<"a", "u", "d", "i", "o">>
sAudioCap == <<"A", "u", "d", "i", "o">>
sOffice == <<"o", "f", "f", "i", "c", "e">>
sWireless == <<"w", "i", "r", "e", "l", "e", "s", "s">>
sWired == <<"w", "i", "r", "e", "d">>
sWirelessPadded == <<" ", "W", "i", "r", "e", "l", "e", "s", "s", " ">>
sEmpty == <<>>

\* The two products of the search scenario, and three more that differ in
\* stock, featured flag, price boundary and category case.  Cable and
\* AudioCable have the same name, Speaker and AudioCable the same price,
\* Headphones and Speaker the same rating, Headphones and Cable the same
\* creation time: every sort key has products that compare equal.
Headphones ==
  [id |-> 1, name |-> <<"W", "i", "r", "e", "l", "e", "s", "s", " ", "H", "e", "a", "d", "p", "h", "o", "n", "e", "s">>, description |-> <<"N", "o", "i", "s", "e", " ", "c", "a", "n", "c", "e", "l", "l", "i", "n", "g">>,
   longDescription |-> Undefined, price |-> 2999, category |-> sAudio,
   tags |-> <<sWireless, sAudio>>, inventory |-> [inStock |-> TRUE, quantity |-> 5],
   featured |-> TRUE, rating |-> Some(45), createdAt |-> 3]

Mouse ==
  [id |-> 2, name |-> <<"W", "i", "r", "e", "d", " ", "M", "o", "u", "s", "e">>, description |-> <<"B", "a", "s", "i", "c", " ", "m", "o", "u", "s", "e">>,
   longDescription |-> Undefined, price |-> 999, category |-> sOffice,
   tags |-> <<sWired>>, inventory |-> [inStock |-> TRUE, quantity |-> 2],
   featured |-> FALSE, rating |-> Undefined, createdAt |-> 1]

Speaker ==
  [id |-> 3, name |-> <<"S", "p", "e", "a", "k", "e", "r">>, description |-> <<"W", "i", "r", "e", "l", "e", "s", "s", " ", "s", "p", "e", "a", "k", "e", "r">>,
   longDescription |-> Some(<<"P", "o", "r", "t", "a", "b", "l", "e">>), price |-> 1000, category |-> sAudioCap,
   tags |-> <<<<"b", "l", "u", "e", "t", "o", "o", "t", "h">>>>, inventory |-> [inStock |-> FALSE, quantity |-> 0],
   featured |-> FALSE, rating |-> Some(45), createdAt |-> 2]

Cable ==
  [id |-> 4, name |-> sCable, description |-> sUsbCable,
   longDescription |-> Undefined, price |-> 0, category |-> sOffice,
   tags |-> <<>>, inventory |-> [inStock |-> FALSE, quantity |-> 0],
   featured |-> FALSE, rating |-> Some(30), createdAt |-> 3]

AudioCable ==
  [id |-> 5, name |-> sCable, description |-> sUsbCable,
   longDescription |-> Undefined, price |-> 1000, category |-> sAudio,
   tags |-> <<sWired, sAudio>>, inventory |-> [inStock |-> FALSE, quantity |-> 0],
   featured |-> TRUE, rating |-> Undefined, createdAt |-> 1]

\* Product lists: up to MaxProducts distinct products in any order
ProductLists ==
  UNION {{s \in [1..n -> {Headphones, Mouse, Speaker, Cable, AudioCable}] : \A i, j \in 1..n : i # j => s[i] # s[j]}
         : n \in 0..MaxProducts}

----------------------------------------------------------------------------
(* JavaScript truthiness of optional FilterParams fields *)

TruthyStr(x) == Has(x) /\ Val(x) # <<>>

TruthyBool(x) == Has(x) /\ Val(x)

TruthyNum(x) == Has(x) /\ Val(x) # 0

\* Array.prototype.sort(cmp) is a stable sort (ES2019): insertion keeps an
\* element behind every earlier element that does not compare greater.
\* cmp is the comparator as a function on pairs of elements.
RECURSIVE InsertStable(_, _, _)
InsertStable(sorted, x, cmp) ==
  IF sorted = <<>> THEN <<x>>
  ELSE IF cmp[<<sorted[Len(sorted)], x>>] <= 0 THEN Append(sorted, x)
  ELSE Append(InsertStable(SubSeq(sorted, 1, Len(sorted) - 1), x, cmp),
              sorted[Len(sorted)])

RECURSIVE ArraySort(_, _)
ArraySort(s, cmp) ==
  IF s = <<>> THEN <<>>
  ELSE InsertStable(ArraySort(SubSeq(s, 1, Len(s) - 1), cmp), s[Len(s)], cmp)

----------------------------------------------------------------------------
(* Filter service (src/lib/db.ts, filter-service part) *)

\* the text the search filter of filterProducts looks into
searchableText(product) ==
  ToLowerCase(Join(<<product.name, product.description>> \o product.tags
                   \o <<product.category>>))

\* the category test compares case-insensitively
rejectsCategoryIgnoringCase(product, filters) ==
  /\ TruthyStr(filters.category)
  /\ ToLowerCase(product.category) # ToLowerCase(Val(filters.category))

\* if (filters.category && product.category !== filters.category) return false
rejectsCategory(product, filters) ==
  TruthyStr(filters.category) /\ product.category # Val(filters.category)

\* the bounds are tested for truthiness, so that a bound of 0 is no bound
rejectsPriceUnlessZero(product, filters) ==
  \/ TruthyNum(filters.minPrice) /\ product.price < Val(filters.minPrice)
  \/ TruthyNum(filters.maxPrice) /\ product.price > Val(filters.maxPrice)

\* if (filters.minPrice !== undefined && product.price < filters.minPrice)
\*   return false          and the same with > for maxPrice
rejectsPrice(product, filters) ==
  \/ Has(filters.minPrice) /\ product.price < Val(filters.minPrice)
  \/ Has(filters.maxPrice) /\ product.price > Val(filters.maxPrice)

rejectsStock(product, filters) ==
  TruthyBool(filters.inStock) /\ ~product.inventory.inStock

\* filters.tags.every in place of filters.tags.some
rejectsTagsUnlessAll(product, filters) ==
  /\ Has(filters.tags)
  /\ Len(Val(filters.tags)) > 0
  /\ ~(\A i \in 1..Len(Val(filters.tags)) :
         Val(filters.tags)[i] \in Range(product.tags))

\* if (filters.tags && filters.tags.length > 0) and no filter tag is one of
\* product.tags (filters.tags.some of product.tags.includes): return false
rejectsTags(product, filters) ==
  /\ Has(filters.tags)
  /\ Len(Val(filters.tags)) > 0
  /\ ~(\E i \in 1..Len(Val(filters.tags)) :
         Val(filters.tags)[i] \in Range(product.tags))

rejectsSearch(product, filters) ==
  /\ TruthyStr(filters.search)
  /\ ~Includes(searchableText(product), Trim(ToLowerCase(Val(filters.search))))

\* the callback of products.filter(...) in filterProducts
passesFilters(product, filters) ==
  /\ ~rejectsCategory(product, filters)
  /\ ~rejectsPrice(product, filters)
  /\ ~rejectsStock(product, filters)
  /\ ~rejectsTags(product, filters)
  /\ ~rejectsSearch(product, filters)

\* the rejected elements are removed from the caller's array itself
inputAfterFilterInPlace(prods, filters) ==
  SelectIdx(prods, {i \in 1..Len(prods) : passesFilters(prods[i], filters)}, 1)

\* the caller's array after filterProducts: Array.prototype.filter builds a
\* new array and leaves the one it is called on as it was
inputAfterFilter(prods, filters) == prods

\* the filter loop starts at the second element
filterProductsSkippingFirst(prods, filters) ==
  SelectIdx(prods, {i \in 2..Len(prods) : passesFilters(prods[i], filters)}, 1)

filterProducts(prods, filters) ==
  SelectIdx(prods, {i \in 1..Len(prods) : passesFilters(prods[i], filters)}, 1)

----------------------------------------------------------------------------
(* Character order, for Array.prototype.sort() without comparator (UTF-16
   code units) and for String.prototype.localeCompare *)

CodeUnits == <<" ", ",", "-", "0", "1", "2", "3", "4", "5", "6", "7", "8", "9">>
             \o UpperChars \o LowerChars

CharCode(c) == CHOOSE i \in 1..Len(CodeUnits) : CodeUnits[i] = c

\* negative, zero or positive as a sorts before, with or after b by code units
RECURSIVE CompareOrdinal(_, _)
CompareOrdinal(a, b) ==
  IF a = <<>> /\ b = <<>> THEN 0
  ELSE IF a = <<>> THEN -1
  ELSE IF b = <<>> THEN 1
  ELSE IF Head(a) # Head(b) THEN CharCode(Head(a)) - CharCode(Head(b))
  ELSE CompareOrdinal(Tail(a), Tail(b))

\* a.localeCompare(b): letters compare without case first; strings equal up
\* to case are ordered lower case first (the root collation)
RECURSIVE CompareCase(_, _)
CompareCase(a, b) ==
  IF a = <<>> \/ b = <<>> THEN 0
  ELSE IF Head(a) # Head(b) THEN CharCode(Head(b)) - CharCode(Head(a))
  ELSE CompareCase(Tail(a), Tail(b))

localeCompare(a, b) ==
  IF CompareOrdinal(ToLowerCase(a), ToLowerCase(b)) # 0
  THEN CompareOrdinal(ToLowerCase(a), ToLowerCase(b))
  ELSE CompareCase(a, b)

ratingAverage(product) ==
  IF Has(product.rating) /\ Val(product.rating) # 0 THEN Val(product.rating) ELSE 0

\* every key compares in ascending order
compareByAscending(sortBy, a, b) ==
  CASE sortBy = "price-asc" -> a.price - b.price
    [] sortBy = "price-desc" -> a.price - b.price
    [] sortBy = "name" -> localeCompare(a.name, b.name)
    [] sortBy = "newest" -> a.createdAt - b.createdAt
    [] sortBy = "rating" -> ratingAverage(a) - ratingAverage(b)
    [] OTHER -> 0

\* the comparator sortProducts hands to Array.prototype.sort, by sort key
compareBy(sortBy, a, b) ==
  CASE sortBy = "price-asc" -> a.price - b.price
    [] sortBy = "price-desc" -> b.price - a.price
    [] sortBy = "name" -> localeCompare(a.name, b.name)
    [] sortBy = "newest" -> b.createdAt - a.createdAt
    [] sortBy = "rating" -> ratingAverage(b) - ratingAverage(a)
    [] OTHER -> 0

SortKeys == {"price-asc", "price-desc", "name", "newest", "rating"}

\* the sort is run on the copy taken back to front
sortProductsReversedCopy(prods, sortBy) ==
  IF ~Has(sortBy) \/ Val(sortBy) = "" THEN prods
  ELSE IF Val(sortBy) \in SortKeys
  THEN ArraySort([i \in 1..Len(prods) |-> prods[Len(prods) + 1 - i]],
                 [pr \in Range(prods) \X Range(prods) |->
                    compareBy(Val(sortBy), pr[1], pr[2])])
  ELSE prods

\* sortBy is Undefined or Some(key), a key being a plain string; the copy [...products] is the value itself
sortProducts(prods, sortBy) ==
  IF ~Has(sortBy) \/ Val(sortBy) = "" THEN prods
  ELSE IF Val(sortBy) \in SortKeys
  THEN ArraySort(prods, [pr \in Range(prods) \X Range(prods) |->
                           compareBy(Val(sortBy), pr[1], pr[2])])
  ELSE prods

\* products.sort(...) without the copy: the caller's array is sorted
inputAfterSortInPlace(prods, sortBy) == sortProducts(prods, sortBy)

\* the caller's array after sortProducts: const sorted = [...products] is a
\* copy, and every sort call is made on sorted
inputAfterSort(prods, sortBy) == prods

\* the array object every return statement hands back: "sorted", the copy
\* allocated by the call, never "products", the parameter
returnedArray(prods, sortBy) == "sorted"

\* the value of a sortProducts call: which array is returned, and its elements
sortProductsCall(prods, sortBy) ==
  [array |-> returnedArray(prods, sortBy),
   elements |-> sortProducts(prods, sortBy)]

----------------------------------------------------------------------------
(* Search with relevance scoring (src/lib/db.ts, searchProducts) *)

ScoreExactName == 100

ScorePartialName == 50

ScoreNameStart == 10

ScoreDescription == 20

ScoreLongDescription == 10

ScoreExactTag == 30

ScorePartialTag == 10

ScoreCategory == 5

ScoreFeatured == 5

ScoreInStock == 3

\* product.tags.forEach(tag => ...): the sum over the tags
RECURSIVE tagScore(_, _)
tagScore(tags, searchTerm) ==
  IF tags = <<>> THEN 0
  ELSE (IF ToLowerCase(Head(tags)) = searchTerm THEN ScoreExactTag
        ELSE IF Includes(ToLowerCase(Head(tags)), searchTerm) THEN ScorePartialTag
        ELSE 0) + tagScore(Tail(tags), searchTerm)

\* the score the .map callback of searchProducts computes
relevanceScore(product, searchTerm) ==
    (IF ToLowerCase(product.name) = searchTerm THEN ScoreExactName
     ELSE IF Includes(ToLowerCase(product.name), searchTerm)
     THEN ScorePartialName
          + (IF StartsWith(ToLowerCase(product.name), searchTerm)
             THEN ScoreNameStart ELSE 0)
     ELSE 0)
  + (IF Includes(ToLowerCase(product.description), searchTerm)
     THEN ScoreDescription ELSE 0)
  + (IF Has(product.longDescription)
        /\ Includes(ToLowerCase(Val(product.longDescription)), searchTerm)
     THEN ScoreLongDescription ELSE 0)
  + tagScore(product.tags, searchTerm)
  + (IF Includes(ToLowerCase(product.category), searchTerm)
     THEN ScoreCategory ELSE 0)
  + (IF product.featured THEN ScoreFeatured ELSE 0)
  + (IF product.inventory.inStock THEN ScoreInStock ELSE 0)

\* .filter(({ score }) => score > 0)
isMatch(scored) == scored.score > 0

\* the matches are ranked from the last to the first
searchProductsBackToFront(query, prods) ==
  LET searchTerm == Trim(ToLowerCase(query))
      scored == [i \in 1..Len(prods) |->
                   [product |-> prods[Len(prods) + 1 - i],
                    score |-> relevanceScore(prods[Len(prods) + 1 - i], searchTerm)]]
      matches == SelectIdx(scored, {i \in 1..Len(scored) : isMatch(scored[i])}, 1)
      ranked == ArraySort(matches, [pr \in Range(matches) \X Range(matches) |->
                                      pr[2].score - pr[1].score])
  IN IF searchTerm = <<>> THEN <<>>
     ELSE [i \in 1..Len(ranked) |-> ranked[i].product]

searchProducts(query, prods) ==
  LET searchTerm == Trim(ToLowerCase(query))
      scored == [i \in 1..Len(prods) |->
                   [product |-> prods[i],
                    score |-> relevanceScore(prods[i], searchTerm)]]
      matches == SelectIdx(scored, {i \in 1..Len(scored) : isMatch(scored[i])}, 1)
      ranked == ArraySort(matches, [pr \in Range(matches) \X Range(matches) |->
                                      pr[2].score - pr[1].score])
  IN IF searchTerm = <<>> THEN <<>>
     ELSE [i \in 1..Len(ranked) |-> ranked[i].product]

----------------------------------------------------------------------------
(* Facet summary (src/lib/db.ts, getAvailableFilterOptions) *)

\* Array.from(new Set(xs)).sort(): the distinct strings in code-unit order
RECURSIVE SortedStrings(_)
SortedStrings(S) ==
  IF S = {} THEN <<>>
  ELSE LET least == CHOOSE x \in S : \A y \in S : CompareOrdinal(x, y) <= 0
       IN <<least>> \o SortedStrings(S \ {least})

\* Math.min(...xs) and Math.max(...xs)
MathMin(S) == IF S = {} THEN PosInfinity ELSE Fin(SetMin(S))

MathMax(S) == IF S = {} THEN NegInfinity ELSE Fin(SetMax(S))

\* the categories are listed as they come: no Set, no sort
getAvailableFilterOptionsAsListed(prods) ==
  [categories |-> [i \in 1..Len(prods) |-> prods[i].category],
   tags |-> SortedStrings(UNION {Range(prods[i].tags) : i \in 1..Len(prods)}),
   priceRange |-> [min |-> MathMin({prods[i].price : i \in 1..Len(prods)}),
                   max |-> MathMax({prods[i].price : i \in 1..Len(prods)})]]

getAvailableFilterOptions(prods) ==
  [categories |-> SortedStrings({prods[i].category : i \in 1..Len(prods)}),
   tags |-> SortedStrings(UNION {Range(prods[i].tags) : i \in 1..Len(prods)}),
   priceRange |-> [min |-> MathMin({prods[i].price : i \in 1..Len(prods)}),
                   max |-> MathMax({prods[i].price : i \in 1..Len(prods)})]]

----------------------------------------------------------------------------
(* Pagination service (src/lib/db.ts, paginateResults) *)

DefaultLimit == 12

MaxLimit == 100

\* the offset counts pages from zero
startIndexZeroBased(currentPage, itemsPerPage) == currentPage * itemsPerPage

\* OFFSET = (page - 1) * limit
startIndexOf(currentPage, itemsPerPage) == (currentPage - 1) * itemsPerPage

\* page and limit are in half units
paginateResults(list, page, limit) ==
  LET currentPage == Max2(1, Floor(page))
      itemsPerPage == Min2(Max2(1, Floor(limit)), MaxLimit)
      total == Len(list)
      totalPages == CeilDiv(total, itemsPerPage)
      startIndex == startIndexOf(currentPage, itemsPerPage)
      endIndex == startIndex + itemsPerPage
  IN [data |-> Slice(list, startIndex, endIndex),
      pagination |-> [page |-> currentPage,
                      limit |-> itemsPerPage,
                      total |-> total,
                      totalPages |-> totalPages,
                      hasNext |-> currentPage < totalPages,
                      hasPrev |-> currentPage > 1]]

----------------------------------------------------------------------------
(* FilterParams (src/lib/types/product.ts): every field is optional.
   category and search are strings, tags a list of strings, sortBy a key,
   inStock a boolean, minPrice and maxPrice integers (cents), page and limit
   numbers in half units. *)

NoFilters ==
  [category |-> Undefined, tags |-> Undefined, inStock |-> Undefined,
   minPrice |-> Undefined, maxPrice |-> Undefined, search |-> Undefined,
   sortBy |-> Undefined, page |-> Undefined, limit |-> Undefined]

\* filters.page || 1 and filters.limit || 12, in half units
pageOrDefault(filters) ==
  IF TruthyNum(filters.page) THEN Val(filters.page) ELSE 2 * 1

limitOrDefault(filters) ==
  IF TruthyNum(filters.limit) THEN Val(filters.limit) ELSE 2 * DefaultLimit

----------------------------------------------------------------------------
(* In-memory products service (src/unnamed/part_006, getProducts) *)

getProductsInMemory(catalog, filters) ==
  LET filtered == filterProducts(catalog, filters)
      sorted == sortProducts(filtered, filters.sortBy)
  IN paginateResults(sorted, pageOrDefault(filters), limitOrDefault(filters))

----------------------------------------------------------------------------
(* Database products service (src/lib/api/products-service.ts, getProducts) *)

\* the Prisma where clause getProducts builds
buildWhere(filters) ==
  [category |-> IF TruthyStr(filters.category) THEN filters.category ELSE Undefined,
   priceGte |-> filters.minPrice,
   priceLte |-> filters.maxPrice,
   inStock |-> filters.inStock,
   contains |-> IF TruthyStr(filters.search) THEN filters.search ELSE Undefined]

\* a row satisfies the where clause; SQLite LIKE ignores ASCII case
rowMatches(product, where) ==
  /\ Has(where.category) => product.category = Val(where.category)
  /\ Has(where.priceGte) => product.price >= Val(where.priceGte)
  /\ Has(where.priceLte) => product.price <= Val(where.priceLte)
  /\ Has(where.inStock) => product.inventory.inStock = Val(where.inStock)
  /\ Has(where.contains) =>
       \/ Includes(ToLowerCase(product.name), ToLowerCase(Val(where.contains)))
       \/ Includes(ToLowerCase(product.description),
                   ToLowerCase(Val(where.contains)))

whereRows(catalog, where) ==
  SelectIdx(catalog, {i \in 1..Len(catalog) : rowMatches(catalog[i], where)}, 1)

\* prisma.product.findMany({where, skip, take}) in table order; a negative
\* take returns rows from the end of the list
findMany(catalog, where, skip, take) ==
  LET rows == whereRows(catalog, where)
      n == Len(rows)
  IN IF take >= 0 THEN Slice(rows, Min2(skip, n), skip + take)
     ELSE Slice(rows, Max2(0, n - skip + take), Max2(0, n - skip))

\* the tags filter getProducts applies to the fetched page
tagsFilter(rows, filters) ==
  IF Has(filters.tags) /\ Len(Val(filters.tags)) > 0
  THEN SelectIdx(rows, {i \in 1..Len(rows) :
                          \E j \in 1..Len(Val(filters.tags)) :
                            Val(filters.tags)[j] \in Range(rows[i].tags)}, 1)
  ELSE rows

\* a number of the response that need not be whole (page is filters.page as
\* given), held in half units
Num(h) == [halves |-> h]

\* Prisma rejects a skip or take that is not an integer, and a negative skip
queryRejected(page, limit) ==
  \/ limit % 2 # 0
  \/ ((page - 2) * limit) % 4 # 0
  \/ (page - 2) * limit < 0

Thrown == [thrown |-> TRUE]

\* what findMany is asked for: skip = (page - 1) * limit in quarter units,
\* take = limit in half units
storeRequest(filters) ==
  LET page == pageOrDefault(filters)
      limit == Min2(limitOrDefault(filters), 2 * MaxLimit)
  IN [skipQuarters |-> (page - 2) * limit, takeHalves |-> limit]

getProducts(catalog, filters) ==
  LET where == buildWhere(filters)
      page == pageOrDefault(filters)
      limit == Min2(limitOrDefault(filters), 2 * MaxLimit)
      skip == ((page - 2) * limit) \div 4
      take == limit \div 2
      total == Len(whereRows(catalog, where))
      fetched == findMany(catalog, where, skip, take)
      results == sortProducts(tagsFilter(fetched, filters), filters.sortBy)
      totalPages == IF take > 0 THEN CeilDiv(total, take) ELSE -((total) \div (-take))
  IN IF queryRejected(page, limit) THEN Thrown
     ELSE [data |-> results,
           pagination |-> [page |-> Num(page),
                           limit |-> take,
                           total |-> total,
                           totalPages |-> totalPages,
                           hasNext |-> page < 2 * totalPages,
                           hasPrev |-> page > 2]]

----------------------------------------------------------------------------
(* GET /api/products (src/app/api/categories/route.ts, second handler) *)

Digits == <<"0", "1", "2", "3", "4", "5", "6", "7", "8", "9">>

IsDigit(c) == \E i \in 1..Len(Digits) : Digits[i] = c

DigitValue(c) == (CHOOSE i \in 1..Len(Digits) : Digits[i] = c) - 1

RECURSIVE leadingDigits(_, _)
leadingDigits(s, acc) ==
  IF s # <<>> /\ IsDigit(Head(s))
  THEN leadingDigits(Tail(s), 10 * acc + DigitValue(Head(s)))
  ELSE acc

\* parseInt(s, 10): NaN is Undefined, an integer n is Some(n)
parseInt(s) ==
  LET t == TrimStart(s)
      negative == t # <<>> /\ Head(t) = "-"
      body == IF negative THEN Tail(t) ELSE t
  IN IF body = <<>> \/ ~IsDigit(Head(body)) THEN Undefined
     ELSE Some((IF negative THEN -1 ELSE 1) * leadingDigits(body, 0))

\* String.prototype.split(',')
RECURSIVE Split(_, _)
Split(s, cur) ==
  IF s = <<>> THEN <<cur>>
  ELSE IF Head(s) = "," THEN <<cur>> \o Split(Tail(s), <<>>)
  ELSE Split(Tail(s), Append(cur, Head(s)))

sTrue == <<"t", "r", "u", "e">>
sOne == <<"1">>
sTwo == <<"2">>

\* the FilterParams the handler builds from the query string; searchParams
\* holds, per parameter, Undefined (null) or Some(string)
parseFilters(searchParams) ==
  [category |-> IF TruthyStr(searchParams.category) THEN searchParams.category
                ELSE Undefined,
   minPrice |-> IF TruthyStr(searchParams.minPrice)
                THEN parseInt(Val(searchParams.minPrice)) ELSE Undefined,
   maxPrice |-> IF TruthyStr(searchParams.maxPrice)
                THEN parseInt(Val(searchParams.maxPrice)) ELSE Undefined,
   inStock |-> IF TruthyStr(searchParams.inStock)
               THEN Some(Val(searchParams.inStock) = sTrue
                         \/ Val(searchParams.inStock) = sOne)
               ELSE Undefined,
   tags |-> IF TruthyStr(searchParams.tags)
            THEN LET parts == Split(Val(searchParams.tags), <<>>)
                 IN Some([i \in 1..Len(parts) |-> Trim(parts[i])])
            ELSE Undefined,
   search |-> IF TruthyStr(searchParams.search) THEN searchParams.search
              ELSE Undefined,
   sortBy |-> IF Has(searchParams.sortBy) /\ Val(searchParams.sortBy) # ""
              THEN searchParams.sortBy ELSE Undefined,
   page |-> IF TruthyStr(searchParams.page)
               /\ Has(parseInt(Val(searchParams.page)))
               /\ Val(parseInt(Val(searchParams.page))) > 0
            THEN Some(2 * Val(parseInt(Val(searchParams.page)))) ELSE Undefined,
   limit |-> IF TruthyStr(searchParams.limit)
                /\ Has(parseInt(Val(searchParams.limit)))
                /\ Val(parseInt(Val(searchParams.limit))) > 0
             THEN Some(2 * Min2(Val(parseInt(Val(searchParams.limit))), MaxLimit))
             ELSE Undefined]

GETProducts(catalog, searchParams) ==
  LET filters == parseFilters(searchParams)
      serviceResult == getProducts(catalog, filters)
  IN IF serviceResult = Thrown
     THEN [status |-> 500, success |-> FALSE, code |-> "INTERNAL_ERROR"]
     ELSE [status |-> 200, success |-> TRUE,
           data |-> serviceResult.data,
           pagination |-> serviceResult.pagination,
           filters |-> [applied |-> filters,
                        available |->
                          getAvailableFilterOptions(serviceResult.data)]]

----------------------------------------------------------------------------
(* GET /api/products/[id] (src/app/api/products/[id]/route.ts) and getProduct
   (src/lib/api/products-service.ts).  Product ids are numbered; BlankId is
   the id that is an empty or blank string, which no product has. *)

BlankId == 0

\* prisma.product.findUnique({where: {id}}): the row, or null
findUnique(catalog, id) ==
  IF \E i \in 1..Len(catalog) : catalog[i].id = id
  THEN Some(catalog[CHOOSE i \in 1..Len(catalog) : catalog[i].id = id])
  ELSE Undefined

\* getProduct is an async function: a call returns a Promise, which settles
\* to the product or null
getProduct(catalog, id) == [promise |-> findUnique(catalog, id)]

\* !product for the value the handler holds: it does not await the call, so
\* product is the Promise object, and an object is never falsy
isFalsy(promise) == FALSE

\* JSON.stringify of a Promise: an object without own enumerable properties
toJSON(promise) == [json |-> "{}"]

GETProduct(catalog, id) ==
  IF id = BlankId
  THEN [status |-> 400, success |-> FALSE, code |-> "INVALID_ID",
        data |-> Undefined]
  ELSE LET product == getProduct(catalog, id)
       IN IF isFalsy(product)
          THEN [status |-> 404, success |-> FALSE, code |-> "NOT_FOUND",
                data |-> Undefined]
          ELSE [status |-> 200, success |-> TRUE, code |-> "",
                data |-> Some(toJSON(product))]

----------------------------------------------------------------------------
(* Shopping cart (src/lib/cart-context.tsx, CartProvider).  The items state
   changes only when React renders: a handler hands setItems an update, the
   updates queue up, and the next render applies them in order.  The value
   of localStorage under 'cart' is absent (Undefined) or a JSON text, held
   as the tree it parses to. *)

CartItem(product, quantity) == [product |-> product, quantity |-> quantity]

\* JSON.stringify(items): a Date becomes its ISO string
stringify(list) ==
  [i \in 1..Len(list) |->
     [product |-> [list[i].product EXCEPT !.createdAt = [iso |-> @]],
      quantity |-> list[i].quantity]]

\* JSON.parse(savedCart) with the Date objects restored: new Date(iso)
restore(parsed) ==
  [i \in 1..Len(parsed) |->
     [product |-> [parsed[i].product EXCEPT !.createdAt = @.iso],
      quantity |-> parsed[i].quantity]]

\* every item is added as a new entry
addUpdaterAppending(currentItems, product, quantity) ==
  Append(currentItems, CartItem(product, quantity))

\* the updater of addToCart: increment the existing item, or add a new one
addUpdater(currentItems, product, quantity) ==
  IF \E i \in 1..Len(currentItems) : currentItems[i].product.id = product.id
  THEN [i \in 1..Len(currentItems) |->
          IF currentItems[i].product.id = product.id
          THEN [currentItems[i] EXCEPT !.quantity = @ + quantity]
          ELSE currentItems[i]]
  ELSE Append(currentItems, CartItem(product, quantity))

\* the updater of removeFromCart
removeUpdater(currentItems, productId) ==
  SelectIdx(currentItems, {i \in 1..Len(currentItems) :
                            currentItems[i].product.id # productId}, 1)

\* the updater of updateQuantity
quantityUpdater(currentItems, productId, quantity) ==
  [i \in 1..Len(currentItems) |->
     IF currentItems[i].product.id = productId
     THEN [currentItems[i] EXCEPT !.quantity = quantity]
     ELSE currentItems[i]]

\* what a handler hands to setItems: an updater with its captured values,
\* or (kind "set") a new value of the state
Update(kind, product, productId, quantity, list) ==
  [items |-> list, quantity |-> quantity, product |-> product,
   productId |-> productId, kind |-> kind]

addToCart(product, quantity) ==
  Update("add", Some(product), product.id, quantity, <<>>)

removeFromCart(productId) == Update("remove", Undefined, productId, 0, <<>>)

\* the quantity is stored whatever it is
updateQuantityUnchecked(productId, quantity) ==
  Update("quantity", Undefined, productId, quantity, <<>>)

\* if (quantity <= 0) { removeFromCart(productId); return; }
updateQuantity(productId, quantity) ==
  IF quantity <= 0 THEN removeFromCart(productId)
  ELSE Update("quantity", Undefined, productId, quantity, <<>>)

clearCart == Update("set", Undefined, 0, 0, <<>>)

\* setItems(restored), of the load effect
setRestored(list) == Update("set", Undefined, 0, 0, list)

\* one queued update applied to the state
applyUpdate(update, currentItems) ==
  CASE update.kind = "add" ->
         addUpdater(currentItems, Val(update.product), update.quantity)
    [] update.kind = "remove" -> removeUpdater(currentItems, update.productId)
    [] update.kind = "quantity" ->
         quantityUpdater(currentItems, update.productId, update.quantity)
    [] OTHER -> update.items

\* the queue applied in order, as the render does
RECURSIVE applyAll(_, _)
applyAll(updates, currentItems) ==
  IF updates = <<>> THEN currentItems
  ELSE applyAll(Tail(updates), applyUpdate(Head(updates), currentItems))

\* items.reduce((sum, item) => sum + item.quantity, 0)
RECURSIVE totalItemsOf(_)
totalItemsOf(list) ==
  IF list = <<>> THEN 0 ELSE Head(list).quantity + totalItemsOf(Tail(list))

\* the provider after its first render: useState([]), nothing queued, the
\* effects not yet run
firstRender(storage) ==
  [items |-> <<>>, pending |-> <<>>, storage |-> storage, phase |-> "rendered",
   saved |-> Undefined, totalItems |-> 0]

\* the two mount effects, in order.  Load: if localStorage has a cart, queue
\* setItems(restored).  Save: write the items of this render, [], to
\* localStorage.
mountEffects(c) ==
  [c EXCEPT !.pending = IF Has(c.storage)
                        THEN Append(@, setRestored(restore(Val(c.storage))))
                        ELSE @,
            !.storage = Some(stringify(c.items))]

\* AddToCartButton: the button is enabled
isAvailable(product) ==
  product.inventory.inStock /\ product.inventory.quantity > 0

----------------------------------------------------------------------------
(* Inputs *)

StockFlags == {Undefined, Some(TRUE), Some(FALSE)}

\* FilterParams for filterProducts: every combination of the six filter fields
FilterInputs ==
  {[NoFilters EXCEPT !.category = c, !.minPrice = lo, !.maxPrice = hi,
                     !.inStock = st, !.tags = tg, !.search = q] :
     c \in {Undefined, Some(sEmpty), Some(sAudio), Some(sAudioCap)}, lo \in {Undefined, Some(0), Some(1000)}, hi \in {Undefined, Some(0), Some(2999)},
     st \in StockFlags, tg \in {Undefined, Some(<<>>), Some(<<sWired, sAudio>>)}, q \in {Undefined, Some(sEmpty), Some(sWirelessPadded)}}

LimitInputs == {-2, 0, 1, 2, 3, 4, 5, 6, 20, 2 * MaxLimit + 2}

\* FilterParams for the services
ServiceFilters ==
  {[NoFilters EXCEPT !.category = c, !.inStock = st, !.tags = tg, !.search = q,
                     !.sortBy = sb, !.page = pg, !.limit = lm] :
     c \in {Undefined, Some(sAudio)}, st \in StockFlags,
     tg \in {Undefined, Some(<<sWired, sAudio>>)},
     q \in {Undefined, Some(sWireless)},
     sb \in {Undefined, Some("price-asc")},
     pg \in {Undefined, Some(2), Some(4)},
     lm \in {Undefined, Some(2), Some(4)}}

\* FilterParams that set page and limit only: negative, zero, whole and
\* fractional values, and a limit above the cap
PagingFilters ==
  {[NoFilters EXCEPT !.page = pg, !.limit = lm] :
     pg \in {Undefined, Some(-2), Some(0), Some(2), Some(3), Some(4)},
     lm \in {Undefined, Some(-2), Some(0), Some(2), Some(3), Some(4),
             Some(2 * MaxLimit + 2)}}

QueryStrings ==
  {[([category |-> Undefined, tags |-> Undefined, inStock |-> Undefined,
   minPrice |-> Undefined, maxPrice |-> Undefined, search |-> Undefined,
   sortBy |-> Undefined, page |-> Undefined, limit |-> Undefined]) EXCEPT !.category = c, !.minPrice = lo, !.inStock = st, !.tags = tg,
                    !.search = q, !.page = pg, !.limit = lm] :
     c \in {Undefined, Some(sAudio)}, lo \in {Undefined, Some(<<"1", "0", "0", "0">>)},
     st \in {Undefined, Some(sTrue), Some(<<"f", "a", "l", "s", "e">>)},
     tg \in {Undefined, Some(<<"w", "i", "r", "e", "d", ",", " ", "a", "u", "d", "i", "o">>)},
     q \in {Undefined, Some(sWireless)},
     pg \in {Undefined, Some(sTwo), Some(<<"a", "b", "c">>)},
     lm \in {Undefined, Some(sOne), Some(sTwo)}}

\* the products shown with an Add to Cart button, one of them out of stock
CartProducts == {Headphones, Mouse, Speaker}

\* localStorage when the page is opened
StoredCarts == {Undefined} \cup {Some(stringify(c)) : c \in {<<>>, <<CartItem(Mouse, 2)>>, <<CartItem(Headphones, 1), CartItem(Mouse, 1)>>}}

ItemLists ==
  {[i \in 1..n |-> i] : n \in 0..MaxItems} \cup {[i \in 1..25 |-> i]}

----------------------------------------------------------------------------
(* State machine: each action is one call of an exported function *)

\* the filter service and the services: products is any product list
Init ==
  /\ products \in ProductLists
  /\ items = <<>>
  /\ op = "idle"
  /\ args = <<>>
  /\ result = <<>>
  /\ cart = firstRender(Undefined)

\* the pagination service: items is any item list
InitPagination ==
  /\ products = <<>>
  /\ items \in ItemLists
  /\ op = "idle"
  /\ args = <<>>
  /\ result = <<>>
  /\ cart = firstRender(Undefined)

\* the cart: the page is opened with any stored cart
InitCart ==
  /\ products = <<>>
  /\ items = <<>>
  /\ op = "idle"
  /\ args = <<>>
  /\ result = <<>>
  /\ cart \in {firstRender(st) : st \in StoredCarts}

\* a call starts when no call is in progress
Call(name, a, r) ==
  /\ op = "idle"
  /\ op' = name
  /\ args' = a
  /\ result' = r
  /\ UNCHANGED <<products, items, cart>>

\* a call that is handed the caller's product array: after is that array
\* when the call returns
CallOnProducts(name, a, r, after) ==
  /\ op = "idle"
  /\ op' = name
  /\ args' = a
  /\ result' = r
  /\ products' = after
  /\ UNCHANGED <<items, cart>>

FilterProducts ==
  \E f \in FilterInputs :
    CallOnProducts("filterProducts", [products |-> products, filters |-> f],
                   filterProducts(products, f), inputAfterFilter(products, f))

SearchProducts ==
  \E q \in {sEmpty, <<" ", " ">>, sWireless, sWirelessPadded, sAudioCap, sOffice} :
    Call("searchProducts", [query |-> q, products |-> products],
         searchProducts(q, products))

SortProducts ==
  \E k \in {Undefined, Some("popular")} \cup {Some(k) : k \in SortKeys} :
    CallOnProducts("sortProducts", [products |-> products, sortBy |-> k],
                   sortProductsCall(products, k), inputAfterSort(products, k))

GetAvailableFilterOptions ==
  Call("getAvailableFilterOptions", [products |-> products],
       getAvailableFilterOptions(products))

\* ---- page numbers of the pagination control ----

\* the numbers pushed by `for (let i = startPage; i <= endPage; i++)`
pagesFromTo(startPage, endPage) ==
  IF endPage < startPage THEN <<>>
  ELSE [i \in 1..(endPage - startPage + 1) |-> startPage + i - 1]

\* getPageNumbers of lib/db.ts
getPageNumbers(currentPage, totalPages, windowSize) ==
  IF totalPages <= windowSize THEN [i \in 1..totalPages |-> i]
  ELSE
    LET halfWindow == windowSize \div 2
        startPage0 == Max2(1, currentPage - halfWindow)
        endPage0   == Min2(totalPages, currentPage + halfWindow)
        endPage    == IF currentPage <= halfWindow
                      THEN Min2(windowSize, totalPages) ELSE endPage0
        startPage  == IF currentPage >= totalPages - halfWindow
                      THEN Max2(1, totalPages - windowSize + 1)
                      ELSE startPage0
    IN  pagesFromTo(startPage, endPage)

\* getPageNumbers of the Pagination component: the same window, of size 5
PaginationGetPageNumbers(page, totalPages) ==
  LET windowSize == 5
  IN  IF totalPages <= windowSize THEN pagesFromTo(1, totalPages)
      ELSE
        LET halfWindow == windowSize \div 2
            startPage0 == Max2(1, page - halfWindow)
            endPage0   == Min2(totalPages, page + halfWindow)
            endPage    == IF page <= halfWindow
                          THEN Min2(windowSize, totalPages) ELSE endPage0
            startPage  == IF page >= totalPages - halfWindow
                          THEN Max2(1, totalPages - windowSize + 1)
                          ELSE startPage0
        IN  pagesFromTo(startPage, endPage)

\* page counts and window sizes of the calls
TotalPagesInputs == {1, 3, 4, 5, 6, 7, 20}

PaginateResults ==
  \E pg \in {-2, 0, 1, 2, 3, 4, 5, 6, 8}, lm \in LimitInputs :
    Call("paginateResults", [items |-> items, page |-> pg, limit |-> lm],
         paginateResults(items, pg, lm))

\* a client that reads every page 1..totalPages with one limit, in page order
RECURSIVE pagesFrom(_, _, _)
pagesFrom(list, p, lm) ==
  IF p > paginateResults(list, 2 * p, lm).pagination.totalPages THEN <<>>
  ELSE paginateResults(list, 2 * p, lm).data \o pagesFrom(list, p + 1, lm)

ReadAllPages ==
  \E lm \in LimitInputs :
    Call("readAllPages", [items |-> items, limit |-> lm], pagesFrom(items, 1, lm))

GetPageNumbers ==
  \E tp \in TotalPagesInputs, w \in {1, 2, 3, 4, 5, 7} :
    \E cp \in 1..tp :
      Call("getPageNumbers",
           [currentPage |-> cp, totalPages |-> tp, windowSize |-> w],
           getPageNumbers(cp, tp, w))

RenderPagination ==
  \E tp \in TotalPagesInputs :
    \E pg \in 1..tp :
      Call("Pagination.getPageNumbers",
           [currentPage |-> pg, totalPages |-> tp, windowSize |-> 5],
           PaginationGetPageNumbers(pg, tp))

GetProductsInMemory ==
  \E f \in ServiceFilters \cup PagingFilters :
    Call("getProductsInMemory", [filters |-> f], getProductsInMemory(products, f))

GetProducts ==
  \E f \in ServiceFilters \cup PagingFilters :
    Call("getProducts", [filters |-> f], getProducts(products, f))

GetApiProducts ==
  \E qs \in QueryStrings :
    Call("GET /api/products", [searchParams |-> qs], GETProducts(products, qs))

GetApiProduct ==
  \E id \in {BlankId, 1, 2, 3, 9} :
    Call("GET /api/products/[id]", [id |-> id], GETProduct(products, id))

\* the caller has consumed the result
Return ==
  /\ op # "idle"
  /\ op' = "idle"
  /\ args' = <<>>
  /\ result' = <<>>
  /\ UNCHANGED <<products, items, cart>>

Next ==
  \/ Return
  \/ FilterProducts
  \/ SearchProducts
  \/ SortProducts
  \/ GetAvailableFilterOptions

Spec == Init /\ [][Next]_vars

NextPagination ==
  \/ Return
  \/ PaginateResults
  \/ ReadAllPages
  \/ GetPageNumbers
  \/ RenderPagination

SpecPagination == InitPagination /\ [][NextPagination]_vars

\* the services and the route over a catalog
\* the effects of the mount run.  In a development build React Strict Mode
\* runs them a second time before the next render (strict); a production
\* build runs them once.
Mount ==
  /\ cart.phase = "rendered"
  /\ \E strict \in BOOLEAN :
       cart' = [(IF strict THEN mountEffects(mountEffects(cart))
                 ELSE mountEffects(cart))
                  EXCEPT !.phase = "mounted", !.saved = cart.storage]
  /\ UNCHANGED <<products, items, op, args, result>>

\* React renders: the queued updates are applied in order, totalItems is
\* computed from the new items, and the save effect writes them
Render ==
  /\ cart.pending # <<>>
  /\ LET newItems == applyAll(cart.pending, cart.items)
     IN cart' = [cart EXCEPT !.items = newItems,
                             !.pending = <<>>,
                             !.totalItems = totalItemsOf(newItems),
                             !.storage = Some(stringify(newItems))]
  /\ op' = "idle"
  /\ args' = <<>>
  /\ UNCHANGED <<products, items, result>>

\* the page is refreshed: a new provider, the same localStorage
Refresh ==
  /\ cart.phase # "rendered"
  /\ cart' = firstRender(cart.storage)
  /\ op' = "idle"
  /\ args' = <<>>
  /\ UNCHANGED <<products, items, result>>

\* a handler is called and hands an update to setItems
Enqueue(name, a, update) ==
  /\ cart.phase # "rendered"
  /\ Len(cart.pending) < MaxPending
  /\ LET next == applyAll(Append(cart.pending, update), cart.items)
     IN \A i \in 1..Len(next) : next[i].quantity <= MaxQuantity
  /\ cart' = [cart EXCEPT !.pending = Append(@, update), !.phase = "used",
                          !.saved = Undefined]
  /\ op' = name
  /\ args' = a
  /\ UNCHANGED <<products, items, result>>

\* the calls of the context value
AddToCart ==
  \E p \in CartProducts, q \in {1, 2} : 
    Enqueue("addToCart", [productId |-> p.id, quantity |-> q], addToCart(p, q))

RemoveFromCart ==
  \E p \in CartProducts :
    Enqueue("removeFromCart", [productId |-> p.id, quantity |-> 0],
            removeFromCart(p.id))

UpdateQuantity ==
  \E p \in CartProducts, q \in {-1, 0, 1, MaxQuantity} :
    Enqueue("updateQuantity", [productId |-> p.id, quantity |-> q],
            updateQuantity(p.id, q))

ClearCart ==
  Enqueue("clearCart", [productId |-> 0, quantity |-> 0], clearCart)

\* the controls of the pages: the Add to Cart button of a product that is
\* available, and on the cart page '-', '+', remove of a rendered item and
\* Clear Cart
ClickAddToCart ==
  \E p \in CartProducts :
    /\ isAvailable(p)
    /\ Enqueue("addToCart", [productId |-> p.id, quantity |-> 1],
               addToCart(p, 1))

ClickMinus ==
  \E i \in 1..Len(cart.items) :
    /\ ~(cart.items[i].quantity <= 1)
    /\ Enqueue("updateQuantity",
               [productId |-> cart.items[i].product.id,
                quantity |-> cart.items[i].quantity - 1],
               updateQuantity(cart.items[i].product.id,
                              cart.items[i].quantity - 1))

ClickPlus ==
  \E i \in 1..Len(cart.items) :
    /\ ~(cart.items[i].quantity >= cart.items[i].product.inventory.quantity)
    /\ Enqueue("updateQuantity",
               [productId |-> cart.items[i].product.id,
                quantity |-> cart.items[i].quantity + 1],
               updateQuantity(cart.items[i].product.id,
                              cart.items[i].quantity + 1))

ClickRemove ==
  \E i \in 1..Len(cart.items) :
    Enqueue("removeFromCart",
            [productId |-> cart.items[i].product.id, quantity |-> 0],
            removeFromCart(cart.items[i].product.id))

ClickClear ==
  /\ cart.items # <<>>
  /\ Enqueue("clearCart", [productId |-> 0, quantity |-> 0], clearCart)

NextCart ==
  \/ Mount
  \/ Render
  \/ Refresh
  \/ AddToCart
  \/ RemoveFromCart
  \/ UpdateQuantity
  \/ ClearCart

SpecCart == InitCart /\ [][NextCart]_vars

NextCartPages ==
  \/ Mount
  \/ Render
  \/ Refresh
  \/ ClickAddToCart
  \/ ClickMinus
  \/ ClickPlus
  \/ ClickRemove
  \/ ClickClear

SpecCartPages == InitCart /\ [][NextCartPages]_vars

NextService ==
  \/ Return
  \/ GetProductsInMemory
  \/ GetProducts
  \/ GetApiProducts
  \/ GetApiProduct

SpecService == Init /\ [][NextService]_vars

----------------------------------------------------------------------------
(* Properties *)

\* the lower-cased, trimmed query, as searchProducts uses it
termOf(query) == Trim(ToLowerCase(query))

\* the query occurs in one of the product's text fields
textMatches(product, term) ==
  \/ Includes(ToLowerCase(product.name), term)
  \/ Includes(ToLowerCase(product.description), term)
  \/ Has(product.longDescription)
       /\ Includes(ToLowerCase(Val(product.longDescription)), term)
  \/ \E i \in 1..Len(product.tags) : Includes(ToLowerCase(product.tags[i]), term)
  \/ Includes(ToLowerCase(product.category), term)

\* C1: reading the pages 1..totalPages of an item list with one limit, in
\* page order, yields exactly the list: nothing missing, duplicated or
\* reordered.  (SpecPagination)
C1_PagesCoverList == op = "readAllPages" => result = args.items

\* C1 witness: five items read in pages of two (limit 2.5 floors to 2), the
\* last page partial
C1_Witness ==
  /\ op = "readAllPages"
  /\ Len(args.items) = 5
  /\ args.limit = 5
  /\ result = <<1, 2, 3, 4, 5>>

\* C2: searchProducts with a query that is empty after trimming returns all
\* input products, unchanged and in input order.  (Spec)
C2_EmptyQueryIsNoOp ==
  (op = "searchProducts" /\ termOf(args.query) = <<>>) => result = args.products

\* C3: for a non-empty query, searchProducts returns a product only if the
\* query is a substring of its name, description, longDescription, one of
\* its tags or its category; searching "wireless" in <<Wireless Headphones,
\* Wired Mouse>> returns the headphones only.  (Spec)
C3_OnlyMatchesReturned ==
  (op = "searchProducts" /\ termOf(args.query) # <<>>) =>
    /\ \A i \in 1..Len(result) : textMatches(result[i], termOf(args.query))
    /\ (args.query = sWireless /\ args.products = <<Headphones, Mouse>>)
         => result = <<Headphones>>

\* C4: with a non-empty filters.search and no sortBy, getProducts returns the
\* matches in descending relevance-score order.  (SpecService)
C4_SearchResultsRanked ==
  (/\ op \in {"getProducts", "getProductsInMemory"}
   /\ TruthyStr(args.filters.search)
   /\ ~Has(args.filters.sortBy)
   /\ result # Thrown) =>
    \A i, j \in 1..Len(result.data) :
      i < j => relevanceScore(result.data[i], termOf(Val(args.filters.search)))
               >= relevanceScore(result.data[j], termOf(Val(args.filters.search)))

\* the whole set the query of a GET /api/products request selects, before
\* the page is cut
filteredSet(catalog, filters) ==
  tagsFilter(whereRows(catalog, buildWhere(filters)), filters)

\* C5: filters.available of GET /api/products is the facet summary of the
\* whole filtered set, not of the returned page.  (SpecService)
C5_FacetsOverFilteredSet ==
  (op = "GET /api/products" /\ result.status = 200) =>
    result.filters.available =
      getAvailableFilterOptions(
        filteredSet(products, parseFilters(args.searchParams)))

\* C6: getAvailableFilterOptions of the empty list is categories = [],
\* tags = [], priceRange = {min: 0, max: 0}.  (Spec)
C6_EmptyFacetSentinel ==
  (op = "getAvailableFilterOptions" /\ args.products = <<>>) =>
    result = [categories |-> <<>>, tags |-> <<>>,
              priceRange |-> [min |-> Fin(0), max |-> Fin(0)]]

\* C7: for an empty item list paginateResults returns totalPages = 0 with
\* hasNext and hasPrev both false, whatever page is requested.
\* (SpecPagination)
C7_EmptyListHasNoNeighbours ==
  (op = "paginateResults" /\ args.items = <<>>) =>
    /\ result.pagination.totalPages = 0
    /\ ~result.pagination.hasNext
    /\ ~result.pagination.hasPrev

\* C8: in getProducts the inStock field constrains only when it is true: with
\* inStock = true every returned product is in stock, and with inStock =
\* false the response is the one of the same request without the field.
\* (SpecService)
C8_StockFlagOnlyWhenTrue ==
  (op \in {"getProducts", "getProductsInMemory"} /\ result # Thrown) =>
    /\ args.filters.inStock = Some(TRUE) =>
         \A i \in 1..Len(result.data) : result.data[i].inventory.inStock
    /\ args.filters.inStock = Some(FALSE) =>
         result = (IF op = "getProducts"
                   THEN getProducts(products,
                                    [args.filters EXCEPT !.inStock = Undefined])
                   ELSE getProductsInMemory(products,
                                    [args.filters EXCEPT !.inStock = Undefined]))

\* no filter field other than category is set
onlyCategorySet(filters) ==
  /\ ~Has(filters.minPrice) /\ ~Has(filters.maxPrice) /\ ~Has(filters.inStock)
  /\ ~Has(filters.tags) /\ ~Has(filters.search)

\* C9: filterProducts with a category C (a set field, i.e. a non-empty
\* string) returns only products whose category is exactly C, never more
\* items than the input, and with only the category set exactly the input
\* products of category C in input order.  (Spec)
C9_CategoryExactMatch ==
  (op = "filterProducts" /\ TruthyStr(args.filters.category)) =>
    /\ \A i \in 1..Len(result) : result[i].category = Val(args.filters.category)
    /\ Len(result) <= Len(args.products)
    /\ onlyCategorySet(args.filters) =>
         result = SelectIdx(args.products,
                            {i \in 1..Len(args.products) :
                               args.products[i].category = Val(args.filters.category)},
                            1)

\* C9 witness: category "audio" alone, over a list that also holds a product
\* of category "Audio": that product is dropped, another one is kept
C9_Witness ==
  /\ op = "filterProducts"
  /\ args.filters.category = Some(sAudio)
  /\ onlyCategorySet(args.filters)
  /\ Speaker \in Range(args.products)
  /\ Speaker \notin Range(result)
  /\ result # <<>>

\* C10: filtering is idempotent: filtering the output of filterProducts
\* again with the same FilterParams changes nothing.  (Spec)
C10_FilterIdempotent ==
  op = "filterProducts" => filterProducts(result, args.filters) = result

\* C10 witness: a filter with several fields set that keeps some products of
\* the list and drops others
C10_Witness ==
  /\ op = "filterProducts"
  /\ Has(args.filters.maxPrice)
  /\ TruthyStr(args.filters.search)
  /\ Has(args.filters.tags) /\ Val(args.filters.tags) # <<>>
  /\ result # <<>>
  /\ Len(result) < Len(args.products)

\* a is b with some elements left out, the others in the same order
RECURSIVE IsSubsequence(_, _)
IsSubsequence(a, b) ==
  IF a = <<>> THEN TRUE
  ELSE IF b = <<>> THEN FALSE
  ELSE IF Head(a) = Head(b) THEN IsSubsequence(Tail(a), Tail(b))
  ELSE IsSubsequence(a, Tail(b))

\* C11: filterProducts is a stable filter: the output is a subsequence of
\* the input (input products only, in their input order), and the caller's
\* list is the same after the call.  (Spec)
C11_StableFilter ==
  op = "filterProducts" =>
    /\ IsSubsequence(result, args.products)
    /\ products = args.products

\* C11 witness: a call that keeps two or more products and drops one in
\* front of or between them
C11_Witness ==
  /\ op = "filterProducts"
  /\ Len(result) >= 2
  /\ Len(result) < Len(args.products)
  /\ result[Len(result)] = args.products[Len(args.products)]
  /\ products = args.products

\* the filters with both price bounds absent
withoutPrice(filters) ==
  [filters EXCEPT !.minPrice = Undefined, !.maxPrice = Undefined]

\* minPrice <= price <= maxPrice, an absent bound not constraining
inPriceRange(product, filters) ==
  /\ Has(filters.minPrice) => Val(filters.minPrice) <= product.price
  /\ Has(filters.maxPrice) => product.price <= Val(filters.maxPrice)

\* C12: the minPrice and maxPrice fields keep exactly the products with
\* minPrice <= price <= maxPrice, both bounds inclusive, a bound of 0 being
\* a bound like any other and an absent bound not constraining: the result
\* is the result without the price fields, cut down to the price range; with
\* no other field set it is the input cut down to the price range.  (Spec)
C12_PriceRangeInclusive ==
  op = "filterProducts" =>
    LET f == args.filters
    IN  /\ result = SelectSeq(filterProducts(args.products, withoutPrice(f)),
                              LAMBDA p : inPriceRange(p, f))
        /\ withoutPrice(f) = NoFilters =>
             result = SelectSeq(args.products, LAMBDA p : inPriceRange(p, f))

\* C12 witness: maxPrice is 0; a product priced at that bound is kept and a
\* dearer one dropped
C12_Witness ==
  /\ op = "filterProducts"
  /\ withoutPrice(args.filters) = NoFilters
  /\ args.filters.maxPrice = Some(0)
  /\ \E i \in 1..Len(result) : result[i].price = 0
  /\ \E i \in 1..Len(args.products) : args.products[i].price > 0
  /\ Len(result) < Len(args.products)

\* the filters with the tags field absent
withoutTags(filters) == [filters EXCEPT !.tags = Undefined]

\* an absent field, or an empty string or list
absentOrEmpty(x) == ~Has(x) \/ Val(x) = <<>>

\* C13: the tags filter is match-any: with a non-empty tags list a product
\* passes iff it carries at least one of the listed tags.  An empty or
\* absent tags list is a no-op, and a filter whose fields are all empty or
\* absent returns every product: it never excludes all of them.  (Spec)
C13_TagsMatchAny ==
  op = "filterProducts" =>
    LET f    == args.filters
        base == filterProducts(args.products, withoutTags(f))
    IN  /\ absentOrEmpty(f.tags) => result = base
        /\ ~absentOrEmpty(f.tags) =>
             result = SelectSeq(base, LAMBDA p :
                        Range(p.tags) \cap Range(Val(f.tags)) # {})
        /\ ( /\ absentOrEmpty(f.category) /\ absentOrEmpty(f.tags)
             /\ absentOrEmpty(f.search)
             /\ ~Has(f.minPrice) /\ ~Has(f.maxPrice) /\ ~Has(f.inStock) ) =>
             result = args.products

\* C13 witness: two tags are asked for; a product with only one of them is
\* kept and a product with neither is dropped
C13_Witness ==
  /\ op = "filterProducts"
  /\ withoutTags(args.filters) = NoFilters
  /\ Has(args.filters.tags)
  /\ Len(Val(args.filters.tags)) = 2
  /\ \E i \in 1..Len(result) :
       Cardinality(Range(result[i].tags) \cap Range(Val(args.filters.tags))) = 1
  /\ Len(result) < Len(args.products)

\* C13 second case reached: an empty tags list with nothing else set
\* returns the whole, non-empty list
C13_WitnessEmptyList ==
  /\ op = "filterProducts"
  /\ args.filters.tags = Some(<<>>)
  /\ withoutTags(args.filters) = NoFilters
  /\ Len(result) >= 2
  /\ result = args.products

sortValue(sortBy, product) ==
  IF ~Has(sortBy) THEN 0
  ELSE CASE Val(sortBy) \in {"price-asc", "price-desc"} -> product.price
         [] Val(sortBy) = "name" -> product.name
         [] Val(sortBy) = "newest" -> product.createdAt
         [] Val(sortBy) = "rating" -> ratingAverage(product)
         [] OTHER -> 0

\* the place of a product in a list of distinct products
indexIn(list, product) == CHOOSE i \in 1..Len(list) : list[i] = product

\* C15: sortProducts is idempotent and stable, for every list and every
\* key: sorting its result again by the same key changes nothing, and two
\* products with the same value under the key keep their input order.  (Spec)
C15_SortIdempotentStable ==
  op = "sortProducts" =>
    LET key == args.sortBy
        in  == args.products
        out == result.elements
    IN  /\ sortProducts(out, key) = out
        /\ Len(out) = Len(in)
        /\ \A i, j \in 1..Len(in) :
             (i < j /\ sortValue(key, in[i]) = sortValue(key, in[j])) =>
               /\ in[i] \in Range(out) /\ in[j] \in Range(out)
               /\ indexIn(out, in[i]) < indexIn(out, in[j])

\* C15 witness: the sort moves a product, and two products with the same
\* value under the key are in the list
C15_Witness ==
  /\ op = "sortProducts"
  /\ Has(args.sortBy)
  /\ Val(args.sortBy) \in SortKeys
  /\ result.elements # args.products
  /\ \E i, j \in 1..Len(args.products) :
       /\ i < j
       /\ sortValue(args.sortBy, args.products[i])
            = sortValue(args.sortBy, args.products[j])
       /\ indexIn(result.elements, args.products[i]) + 1
            = indexIn(result.elements, args.products[j])

\* the integer n with n <= h/2 < n + 1, for h in half units
floorOfHalves(h) ==
  CHOOSE n \in -(MaxLimit + 2)..(MaxLimit + 2) : 2 * n <= h /\ h < 2 * n + 2

\* the page and the limit paginateResults is to work with
normalPage(page) == IF floorOfHalves(page) < 1 THEN 1 ELSE floorOfHalves(page)

normalLimit(limit) ==
  IF floorOfHalves(limit) < 1 THEN 1
  ELSE IF floorOfHalves(limit) > 100 THEN 100 ELSE floorOfHalves(limit)

\* C16: paginateResults normalizes its inputs, page = max(1, floor(page))
\* and limit = floor(limit) clamped to 1..100, and returns the items at the
\* 0-based positions (page - 1) * limit up to, not including,
\* (page - 1) * limit + limit that exist: never more than limit items.  A
\* page past the end returns no items, with total and totalPages as for any
\* other page.  (SpecPagination)
C16_PageWindow ==
  op = "paginateResults" =>
    LET pg    == normalPage(args.page)
        lm    == normalLimit(args.limit)
        n     == Len(args.items)
        first == (pg - 1) * lm
        count == IF first >= n THEN 0
                 ELSE IF first + lm > n THEN n - first ELSE lm
    IN  /\ result.pagination.page = pg
        /\ result.pagination.limit = lm
        /\ result.data = [i \in 1..count |-> args.items[first + i]]
        /\ Len(result.data) <= lm
        /\ first >= n =>
             /\ result.data = <<>>
             /\ result.pagination.total = n
             /\ result.pagination.totalPages
                  = paginateResults(args.items, 2, args.limit).pagination.totalPages

\* C16 witness: page 2.5 and limit 2.5 are floored to 2 and 2, and the page
\* is the third and fourth item
C16_Witness ==
  /\ op = "paginateResults"
  /\ args.page = 5
  /\ args.limit = 5
  /\ Len(args.items) >= 5
  /\ result.pagination.page = 2
  /\ result.pagination.limit = 2
  /\ result.data = <<args.items[3], args.items[4]>>

\* C16, a page past the end is reached: no items, the total and the page
\* count of the list
C16_WitnessPastEnd ==
  /\ op = "paginateResults"
  /\ args.page = 8
  /\ args.limit = 4
  /\ Len(args.items) = 5
  /\ result.data = <<>>
  /\ result.pagination.total = 5
  /\ result.pagination.totalPages = 3

\* C17: total is the length of the input, totalPages the least number of
\* pages of limit items that hold them all (ceil(total / limit)), hasPrev
\* holds iff page > 1 and hasNext iff page * limit < total.  In particular
\* 25 items at page 3 with limit 10 give the items at positions 20..24,
\* totalPages 3, hasNext false and hasPrev true.  (SpecPagination)
C17_PageMetadata ==
  op = "paginateResults" =>
    LET m == result.pagination
    IN  /\ m.total = Len(args.items)
        /\ m.totalPages * m.limit >= m.total
        /\ m.totalPages >= 0
        /\ m.totalPages > 0 => (m.totalPages - 1) * m.limit < m.total
        /\ m.hasPrev <=> m.page > 1
        /\ m.hasNext <=> m.page * m.limit < m.total
        /\ (Len(args.items) = 25 /\ args.page = 2 * 3 /\ args.limit = 2 * 10) =>
             /\ result.data = [i \in 1..5 |-> args.items[20 + i]]
             /\ m.totalPages = 3
             /\ ~m.hasNext
             /\ m.hasPrev

\* C17 witness: the call with 25 items, page 3 and limit 10
C17_Witness ==
  /\ op = "paginateResults"
  /\ Len(args.items) = 25
  /\ args.page = 2 * 3
  /\ args.limit = 2 * 10
  /\ Len(result.data) = 5
  /\ result.pagination.total = 25

\* C18: the relevance score searchProducts gives a product is the sum of:
\* name equals query 100, otherwise name contains query 50 (and 10 more if
\* it starts with it), description contains 20, longDescription contains
\* 10, 30 per tag equal to the query, 10 per other tag containing it,
\* category contains 5, featured 3, in stock 3; the result is ranked by that
\* sum, highest first.  (Spec)
C18_ScoreIsTableSum ==
  (op = "searchProducts" /\ termOf(args.query) # <<>>) =>
    LET term == termOf(args.query)
        onName(p) ==
          IF ToLowerCase(p.name) = term THEN 100
          ELSE IF Includes(ToLowerCase(p.name), term)
          THEN IF StartsWith(ToLowerCase(p.name), term) THEN 50 + 10 ELSE 50
          ELSE 0
        equalTags(p) ==
          {i \in 1..Len(p.tags) : ToLowerCase(p.tags[i]) = term}
        containingTags(p) ==
          {i \in 1..Len(p.tags) : Includes(ToLowerCase(p.tags[i]), term)}
            \ equalTags(p)
        tableSum(p) ==
            onName(p)
          + (IF Includes(ToLowerCase(p.description), term) THEN 20 ELSE 0)
          + (IF Has(p.longDescription)
                /\ Includes(ToLowerCase(Val(p.longDescription)), term)
             THEN 10 ELSE 0)
          + 30 * Cardinality(equalTags(p))
          + 10 * Cardinality(containingTags(p))
          + (IF Includes(ToLowerCase(p.category), term) THEN 5 ELSE 0)
          + (IF p.featured THEN 3 ELSE 0)
          + (IF p.inventory.inStock THEN 3 ELSE 0)
    IN  /\ \A i \in 1..Len(args.products) :
             relevanceScore(args.products[i], term) = tableSum(args.products[i])
        /\ \A i, j \in 1..Len(result) :
             i < j => tableSum(result[i]) >= tableSum(result[j])

\* the filters with page and limit absent
withoutPaging(filters) == [filters EXCEPT !.page = Undefined, !.limit = Undefined]

\* C19: pagination.total returned by getProducts is the number of products
\* that satisfy all active filter fields (category, price bounds, inStock,
\* tags, search), counted before pagination: it is the same for every page
\* and limit, and the data of the page is the slice of that filtered set at
\* the page's offset.  Stated for whole pages and limits of 1 or more; each
\* field is read as the service itself reads it.  (SpecService)
C19_TotalCountsFilteredSet ==
  (/\ op \in {"getProducts", "getProductsInMemory"}
   /\ result # Thrown
   /\ pageOrDefault(args.filters) >= 2 /\ pageOrDefault(args.filters) % 2 = 0
   /\ limitOrDefault(args.filters) >= 2 /\ limitOrDefault(args.filters) % 2 = 0) =>
    LET f     == args.filters
        db    == op = "getProducts"
        set   == IF db THEN filteredSet(products, f)
                 ELSE sortProducts(filterProducts(products, f), f.sortBy)
        first == IF db THEN getProducts(products, withoutPaging(f))
                 ELSE getProductsInMemory(products, withoutPaging(f))
        pg    == pageOrDefault(f) \div 2
        lm    == Min2(limitOrDefault(f) \div 2, MaxLimit)
    IN  /\ result.pagination.total = Len(set)
        /\ result.pagination.total = first.pagination.total
        /\ Range(result.data) = Range(Slice(set, (pg - 1) * lm, (pg - 1) * lm + lm))

\* C20: getProducts is total: for every FilterParams value, page <= 0,
\* fractional page, limit <= 0 and limit > 100 included, it returns a
\* response; the store is never asked for a negative offset or size; the
\* pagination returned has page >= 1 and 1 <= limit <= 100, and data has at
\* most limit items.  (SpecService)
C20_GetProductsTotal ==
  op \in {"getProducts", "getProductsInMemory"} =>
    /\ op = "getProducts" =>
         /\ storeRequest(args.filters).skipQuarters >= 0
         /\ storeRequest(args.filters).takeHalves >= 0
    /\ result # Thrown
    /\ (IF op = "getProducts" THEN result.pagination.page.halves
        ELSE 2 * result.pagination.page) >= 2 * 1
    /\ result.pagination.limit >= 1
    /\ result.pagination.limit <= 100
    /\ Len(result.data) <= result.pagination.limit

\* C21: GET /api/products/[id] answers 404 with error code NOT_FOUND
\* whenever no product has the requested id, and 200 with that product's
\* data when one exists.  Stated for ids that are not blank.  (SpecService)
C21_ProductByIdOr404 ==
  (op = "GET /api/products/[id]" /\ args.id # BlankId) =>
    IF \E i \in 1..Len(products) : products[i].id = args.id
    THEN /\ result.status = 200
         /\ \E i \in 1..Len(products) :
              products[i].id = args.id /\ result.data = Some(products[i])
    ELSE /\ result.status = 404
         /\ result.code = "NOT_FOUND"

\* C22: the cart enforces stock limits: after any sequence of the cart
\* actions the pages offer (Add to Cart, '+', '-', remove, Clear Cart) every
\* cart item's quantity is at most its product.inventory.quantity.
\* (SpecCartPages)
C22_QuantityWithinStock ==
  \A i \in 1..Len(cart.items) :
    cart.items[i].quantity <= cart.items[i].product.inventory.quantity

\* C23: the cart survives a page refresh: when the provider mounts with a
\* non-empty saved cart in localStorage, then once the mount effects and the
\* renders they cause have settled the cart state holds exactly the saved
\* items and quantities, and localStorage holds that same cart.
\* (SpecCartPages)
C23_CartSurvivesRefresh ==
  (/\ cart.phase = "mounted"
   /\ cart.pending = <<>>
   /\ Has(cart.saved)
   /\ Val(cart.saved) # <<>>) =>
    /\ stringify(cart.items) = Val(cart.saved)
    /\ cart.storage = cart.saved

\* C24: addToCart creates a new item or increments the existing one: after
\* any sequence of addToCart, removeFromCart, updateQuantity and clearCart,
\* several of them queued before one render included, the cart holds at
\* most one item per product id, and totalItems is the sum of the item
\* quantities.  (SpecCart)
C24_OneItemPerProduct ==
  /\ \A i, j \in 1..Len(cart.items) :
       cart.items[i].product.id = cart.items[j].product.id => i = j
  /\ cart.totalItems =
       Cardinality({u \in (1..Len(cart.items)) \X (1..(MaxQuantity + 1)) :
                      u[2] <= cart.items[u[1]].quantity})

\* C24 witness: a render has applied two queued updates; the cart holds two
\* products, one of them with a quantity that was incremented
C24_Witness ==
  /\ cart.phase = "used"
  /\ cart.pending = <<>>
  /\ Len(cart.items) = 2
  /\ cart.items[1].quantity = 3
  /\ cart.totalItems = 3 + cart.items[2].quantity

\* C24, the queued case is reached: two addToCart calls for a product
\* already in the cart wait for one render
C24_WitnessBatched ==
  /\ Len(cart.pending) = 2
  /\ cart.pending[1].kind = "add"
  /\ cart.pending[2] = cart.pending[1]
  /\ \E i \in 1..Len(cart.items) :
       cart.items[i].product.id = cart.pending[1].productId

\* C28: cart quantities never drop below 1: after any sequence of cart
\* operations (addToCart with quantity >= 1, updateQuantity with any
\* integer, removeFromCart, clearCart) every item in the cart has quantity
\* >= 1; updateQuantity with a quantity <= 0 removes the item instead of
\* storing the quantity.  (SpecCart)
C28_QuantityAtLeastOne ==
  /\ \A i \in 1..Len(cart.items) : cart.items[i].quantity >= 1
  /\ (op = "updateQuantity" /\ args.quantity <= 0) =>
       \A i \in 1..Len(applyAll(cart.pending, cart.items)) :
         applyAll(cart.pending, cart.items)[i].product.id # args.productId

\* C28 witness: updateQuantity is called with 0 for a product in a cart of
\* two; the update it queued removes that product and leaves the other
C28_Witness ==
  /\ op = "updateQuantity"
  /\ args.quantity = 0
  /\ Len(cart.items) = 2
  /\ \E i \in 1..2 : cart.items[i].product.id = args.productId
  /\ Len(cart.pending) = 1
  /\ Len(applyAll(cart.pending, cart.items)) = 1

\* C25: for a non-empty query, searchProducts orders its results by
\* descending relevance score, and products with equal scores keep their
\* relative order from the input: a stable sort by score.  (Spec)
C25_SearchStableByScore ==
  (op = "searchProducts" /\ termOf(args.query) # <<>>) =>
    \A i, j \in 1..Len(result) :
      i < j =>
        LET si == relevanceScore(result[i], termOf(args.query))
            sj == relevanceScore(result[j], termOf(args.query))
        IN  /\ si >= sj
            /\ si = sj => indexIn(args.products, result[i])
                            < indexIn(args.products, result[j])

\* C25 witness: three results, two of them with the same score, behind a
\* product that was behind them in the input
C25_Witness ==
  /\ op = "searchProducts"
  /\ termOf(args.query) # <<>>
  /\ Len(result) = 3
  /\ relevanceScore(result[2], termOf(args.query))
       = relevanceScore(result[3], termOf(args.query))
  /\ result[1] = args.products[3]

\* the rating a product is ranked by: rating.average, absent counted as 0
ratingOrZero(product) == IF Has(product.rating) THEN Val(product.rating) ELSE 0

\* C26: sortProducts always returns a permutation of its input: ordered by
\* non-decreasing price for 'price-asc', non-increasing price for
\* 'price-desc', non-increasing createdAt for 'newest', non-increasing
\* rating.average (an absent rating counted as 0) for 'rating', and in
\* exactly the input order for an absent or unrecognized key.  (Spec)
C26_SortPermutationInOrder ==
  op = "sortProducts" =>
    LET key == args.sortBy
        in  == args.products
        out == result.elements
        ordered(le(_, _)) == \A i, j \in 1..Len(out) : i < j => le(out[i], out[j])
    IN  /\ Len(out) = Len(in)
        /\ \A p \in Range(in) :
             Cardinality({i \in 1..Len(out) : out[i] = p})
               = Cardinality({i \in 1..Len(in) : in[i] = p})
        /\ key = Some("price-asc") => ordered(LAMBDA a, b : a.price <= b.price)
        /\ key = Some("price-desc") => ordered(LAMBDA a, b : a.price >= b.price)
        /\ key = Some("newest") =>
             ordered(LAMBDA a, b : a.createdAt >= b.createdAt)
        /\ key = Some("rating") =>
             ordered(LAMBDA a, b : ratingOrZero(a) >= ratingOrZero(b))
        /\ (~Has(key) \/ Val(key) \notin SortKeys) => out = in

\* C26 witness: by 'rating', a product without a rating that was first in
\* the input is last of three in the result
C26_Witness ==
  /\ op = "sortProducts"
  /\ args.sortBy = Some("rating")
  /\ Len(args.products) = 3
  /\ ~Has(args.products[1].rating)
  /\ result.elements[3] = args.products[1]
  /\ Has(result.elements[1].rating)
  /\ Has(result.elements[2].rating)

\* a list of strings in strictly ascending code-unit order
strictlyAscending(list) ==
  \A i, j \in 1..Len(list) : i < j => CompareOrdinal(list[i], list[j]) < 0

\* C27: for a non-empty product list, getAvailableFilterOptions returns
\* categories and tags that are duplicate-free, in ascending order, and are
\* exactly the categories and tags occurring in the input; priceRange.min
\* and priceRange.max are the smallest and the largest price in the input.
\* (Spec)
C27_FacetsOfNonEmptyList ==
  (op = "getAvailableFilterOptions" /\ args.products # <<>>) =>
    LET in == args.products
    IN  /\ strictlyAscending(result.categories)
        /\ Range(result.categories) = {in[i].category : i \in 1..Len(in)}
        /\ strictlyAscending(result.tags)
        /\ Range(result.tags) =
             {t \in UNION {Range(in[i].tags) : i \in 1..Len(in)} : TRUE}
        /\ \E i \in 1..Len(in) : result.priceRange.min = Fin(in[i].price)
        /\ \E i \in 1..Len(in) : result.priceRange.max = Fin(in[i].price)
        /\ \A i \in 1..Len(in) :
             /\ result.priceRange.min[2] <= in[i].price
             /\ in[i].price <= result.priceRange.max[2]

\* C27 witness: three products, two of one category, the category of the
\* last product sorting first; one tag occurs twice; the prices differ
C27_Witness ==
  /\ op = "getAvailableFilterOptions"
  /\ Len(args.products) = 3
  /\ Len(result.categories) = 2
  /\ result.categories[1] = args.products[3].category
  /\ args.products[1].category = args.products[2].category
  /\ Len(result.tags) = 4
  /\ Len(args.products[1].tags) + Len(args.products[2].tags)
       + Len(args.products[3].tags) = 5
  /\ result.priceRange.min # result.priceRange.max

\* C29: the database-backed getProducts and the in-memory getProducts are
\* equivalent: over the same product collection and the same FilterParams
\* they return the same data sequence and the same pagination metadata.
\* (SpecService)
C29_ServicesEquivalent ==
  op = "getProducts" =>
    LET inMemory == getProductsInMemory(products, args.filters)
    IN  /\ result # Thrown
        /\ result.data = inMemory.data
        /\ result.pagination.page.halves = 2 * inMemory.pagination.page
        /\ result.pagination.limit = inMemory.pagination.limit
        /\ result.pagination.total = inMemory.pagination.total
        /\ result.pagination.totalPages = inMemory.pagination.totalPages
        /\ result.pagination.hasNext = inMemory.pagination.hasNext
        /\ result.pagination.hasPrev = inMemory.pagination.hasPrev

\* C30: for 1 <= currentPage <= totalPages and windowSize >= 1,
\* getPageNumbers returns consecutive ascending page numbers within
\* [1, totalPages] that include currentPage and number exactly
\* min(windowSize, totalPages). (SpecPagination)
C30_PageNumbersWindow ==
  (/\ op \in {"getPageNumbers", "Pagination.getPageNumbers"}
   /\ 1 <= args.currentPage
   /\ args.currentPage <= args.totalPages
   /\ args.windowSize >= 1) =>
    /\ \A i \in 1..Len(result) : result[i] \in 1..args.totalPages
    /\ \A i \in 1..(Len(result) - 1) : result[i + 1] = result[i] + 1
    /\ \E i \in 1..Len(result) : result[i] = args.currentPage
    /\ Len(result) = Min2(args.windowSize, args.totalPages)

====
